---- MODULE Spec2Model ----
(***************************************************************************)
(* mitmpac PAC server: the config registry (ConfigsHolder), its entries    *)
(* (ConfigHolder), and the three HTTP handlers that use it, each run by    *)
(* its own goroutine.  The registry has no lock, so every access to the    *)
(* map, to the counter and to a holder's conn field is a separate step.    *)
(***************************************************************************)
EXTENDS Integers, Sequences, FiniteSets, TLC

\* ---------------------------------------------------------------- bounds
\* Number of requests (goroutines) the server handles in a run.
NProcs == 4
\* Number of requests whose handler runs at the same time.
MaxInFlight == 2

Procs == 1..NProcs

\* ------------------------------------------------------- program constants
\* nil pointer (holder.conn == nil, configs.get(id) == nil)
Nil == 0

directPacContent == "function FindProxyForURL(url, host) {\n    return \"DIRECT\";\n}"

\* ------------------------------------------------------------------ inputs
Secrets == {"abc", "a"}
Contents == {"X", "Y"}

\* POST /upload requests: the well-formed ones, and one for each way
\* uploadHandler refuses a request
UploadRequests ==
    [method : {"POST"}, bodyErr : {FALSE}, secret : Secrets, content : Contents]
    \cup {[method |-> "GET", bodyErr |-> FALSE, secret |-> "abc", content |-> "X"],
          [method |-> "POST", bodyErr |-> TRUE, secret |-> "abc", content |-> "X"],
          [method |-> "POST", bodyErr |-> FALSE, secret |-> "", content |-> "X"]}

\* GET /ws requests: with a secret, without one, and one the upgrade refuses
WsRequests ==
    [upgradeOk : {TRUE}, secret : Secrets \cup {""}]
    \cup {[upgradeOk |-> FALSE, secret |-> "abc"]}

\* hex(sha1(secret)) for the secrets of the model
generateID(secret) ==
    CASE secret = "abc" -> "a9993e364706816aba3e25717850c26c9cd0d89d"
      [] secret = "a"   -> "86f7e437faa5a7fce15d1ddcb9eaeaea377667b8"
      [] secret = ""    -> "da39a3ee5e6b4b0d3255bfef95601890afd80709"

\* Mutant of TrimPrefix: the prefix is cut one character short.
TrimPrefixShort(s, prefix) ==
    IF Len(s) >= Len(prefix) /\ SubSeq(s, 1, Len(prefix)) = prefix
    THEN SubSeq(s, Len(prefix), Len(s))
    ELSE s

\* strings.TrimPrefix
TrimPrefix(s, prefix) ==
    IF Len(s) >= Len(prefix) /\ SubSeq(s, 1, Len(prefix)) = prefix
    THEN SubSeq(s, Len(prefix) + 1, Len(s))
    ELSE s

Paths == {"/pac/a9993e364706816aba3e25717850c26c9cd0d89d",
          "/pac/86f7e437faa5a7fce15d1ddcb9eaeaea377667b8"}

\* The requesters of GET /pac/{id}: X-Real-IP header, RemoteAddr, User-Agent
Clients == {[realIP |-> "", remoteAddr |-> "10.0.0.7:5555", agent |-> "curl"],
            [realIP |-> "1.2.3.4", remoteAddr |-> "10.0.0.7", agent |-> "curl"]}

\* GET /pac/{id} requests: for the identifiers of the secrets, and one without id
PacRequests ==
    [path : Paths, client : Clients]
    \cup {[path |-> "/pac/",
           client |-> [realIP |-> "", remoteAddr |-> "10.0.0.7:5555", agent |-> "curl"]]}

\* index of the last ":" of s, 0 when there is none
RECURSIVE LastColon(_, _)
LastColon(s, i) ==
    IF i = 0 THEN 0
    ELSE IF SubSeq(s, i, i) = ":" THEN i ELSE LastColon(s, i - 1)

\* net.SplitHostPort on addresses without brackets: <<host, ok>>
SplitHostPort(addr) ==
    LET i == LastColon(addr, Len(addr)) IN
    IF i = 0 THEN <<"", FALSE>>
    ELSE IF LastColon(addr, i - 1) # 0 THEN <<"", FALSE>>
    ELSE <<SubSeq(addr, 1, i - 1), TRUE>>

getClientIP(r) ==
    IF r.realIP # "" THEN r.realIP
    ELSE LET hp == SplitHostPort(r.remoteAddr) IN
         IF ~hp[2] THEN r.remoteAddr ELSE hp[1]

\* fmt.Sprintf("Config accessed by %s %s", clientIP, r.UserAgent())
AccessMessage(r) == "Config accessed by " \o getClientIP(r) \o " " \o r.agent

\* http.Error(w, msg, code): the body is the message and a newline
HttpError(route, msg, code) == [route |-> route, status |-> code, body |-> msg \o "\n"]

\* w.WriteHeader(200) / w.Write(body)
HttpOK(route, body) == [route |-> route, status |-> 200, body |-> body]

NoResp == [route |-> "", status |-> 0, body |-> ""]

\* ------------------------------------------------------------------- state
VARIABLES
    configs,        \* ConfigsHolder.configs: id -> holder reference
    activeConfigs,  \* ConfigsHolder.activeConfigs
    gauge,          \* middlewares.ActiveConfigs
    holders,        \* the ConfigHolder objects allocated so far
    conns,          \* the websocket connections upgraded so far
    pc,             \* where each request's goroutine is
    loc,            \* its local variables
    out,            \* the HTTP response written last
    fatal,          \* the runtime aborted the process
    cur             \* history: the request being served in a sequential run,
                    \* with the state it started from

vars == <<configs, activeConfigs, gauge, holders, conns, pc, loc, out, fatal, cur>>

NoLoc == [id |-> "", content |-> "", hd |-> Nil, cn |-> Nil,
          exists |-> FALSE, tmp |-> 0, msg |-> ""]

NewConfigsHolder == << >>

\* History of a sequential run: which request runs (or ran last), its inputs and
\* the state when its handler started.  No action reads it.
NoArgs == [method |-> "", bodyErr |-> FALSE, upgradeOk |-> FALSE, secret |-> "",
           content |-> "", path |-> "", msg |-> "", id |-> "", cn |-> Nil]
Snapshot == [configs |-> configs, activeConfigs |-> activeConfigs, gauge |-> gauge,
             holders |-> holders, conns |-> conns, out |-> out]
NoRequest == [op |-> "none", p |-> 0, args |-> NoArgs,
              pre |-> [configs |-> << >>, activeConfigs |-> 0, gauge |-> 0,
                       holders |-> << >>, conns |-> << >>, out |-> NoResp],
              prev |-> [op |-> "none", args |-> NoArgs]]
Begin(op, p, args) == [op |-> op, p |-> p, args |-> args, pre |-> Snapshot,
                       prev |-> [op |-> cur.op, args |-> cur.args]]

Init ==
    /\ configs = NewConfigsHolder
    /\ activeConfigs = 0
    /\ gauge = 0
    /\ holders = << >>
    /\ conns = << >>
    /\ pc = [p \in Procs |-> "idle"]
    /\ loc = [p \in Procs |-> NoLoc]
    /\ out = NoResp
    /\ fatal = FALSE
    /\ cur = NoRequest

\* ------------------------------------------------------------ map, objects
MapHas(m, id) == id \in DOMAIN m
MapPut(m, id, h) == [k \in (DOMAIN m) \cup {id} |-> IF k = id THEN h ELSE m[k]]
MapDelete(m, id) == [k \in (DOMAIN m) \ {id} |-> m[k]]

\* ConfigsHolder.get
Get(m, id) == IF MapHas(m, id) THEN m[id] ELSE Nil

\* &ConfigHolder{content: content}
NewHolder(content) == [content |-> content, conn |-> Nil, mutex |-> 0]

\* the connection upgrader.Upgrade returns
NewConn == [closed |-> FALSE, peerGone |-> FALSE, frames |-> << >>]

\* conn.Close()
ConnClose(cs, k) == [cs EXCEPT ![k].closed = TRUE]

\* conn.WriteMessage(websocket.TextMessage, msg): fails on a closed or broken
\* connection, otherwise the frame goes out
WriteOk(cs, k) == ~cs[k].closed /\ ~cs[k].peerGone
WriteMessage(cs, k, msg) ==
    IF WriteOk(cs, k) THEN [cs EXCEPT ![k].frames = Append(@, msg)] ELSE cs

\* ------------------------------------------------------------- scheduling
Running(p) == pc[p] \notin {"idle", "done", "ws_read"}
InFlight == Cardinality({p \in Procs : Running(p)})

\* goroutines are anonymous: a new request takes the first unused slot
CanStart(p) ==
    /\ ~fatal
    /\ pc[p] = "idle"
    /\ \A q \in Procs : q < p => pc[q] # "idle"
    /\ InFlight < MaxInFlight

At(p, l) == ~fatal /\ pc[p] = l

Goto(p, l) == pc' = [pc EXCEPT ![p] = l]
\* the handler returns: its locals are gone
Return(p) == pc' = [pc EXCEPT ![p] = "done"] /\ loc' = [loc EXCEPT ![p] = NoLoc]

\* ---------------------------------------------------------- POST /upload
\* Mutant of StartUpload: the X-Secret header is not checked.
StartUploadAnySecret(p, method, bodyErr, secret, content) ==
    /\ CanStart(p)
    /\ IF method # "POST" THEN
            /\ out' = HttpError("/upload", "Invalid method, use POST", 400)
            /\ Return(p)
       ELSE IF bodyErr THEN
            /\ out' = HttpError("/upload", "Failed to read request body", 500)
            /\ Return(p)
       ELSE
            /\ loc' = [loc EXCEPT ![p] = [NoLoc EXCEPT !.id = generateID(secret),
                                                      !.content = content]]
            /\ Goto(p, "add_lookup")
            /\ UNCHANGED out
    /\ UNCHANGED <<configs, activeConfigs, gauge, holders, conns, fatal>>

\* uploadHandler up to the call of configs.add
StartUpload(p, method, bodyErr, secret, content) ==
    /\ CanStart(p)
    /\ IF method # "POST" THEN
            /\ out' = HttpError("/upload", "Invalid method, use POST", 400)
            /\ Return(p)
       ELSE IF bodyErr THEN
            /\ out' = HttpError("/upload", "Failed to read request body", 500)
            /\ Return(p)
       ELSE IF secret = "" THEN
            /\ out' = HttpError("/upload", "Missing X-Secret header", 400)
            /\ Return(p)
       ELSE
            /\ loc' = [loc EXCEPT ![p] = [NoLoc EXCEPT !.id = generateID(secret),
                                                      !.content = content]]
            /\ Goto(p, "add_lookup")
            /\ UNCHANGED out
    /\ UNCHANGED <<configs, activeConfigs, gauge, holders, conns, fatal>>

\* add: config, exists := ch.configs[id]
AddLookup(p) ==
    /\ At(p, "add_lookup")
    /\ loc' = [loc EXCEPT ![p].exists = MapHas(configs, loc[p].id),
                          ![p].hd = Get(configs, loc[p].id)]
    /\ Goto(p, IF MapHas(configs, loc[p].id) THEN "add_conn" ELSE "add_store")
    /\ UNCHANGED <<configs, activeConfigs, gauge, holders, conns, out, fatal>>

\* Mutant of AddConn: add without the check for an attached connection.
AddConnUnchecked(p) ==
    /\ At(p, "add_conn")
    /\ Goto(p, "add_store")
    /\ UNCHANGED <<configs, activeConfigs, gauge, holders, conns, loc, out, fatal>>

\* add: if config.conn != nil { return error }, answered 409 by uploadHandler
AddConn(p) ==
    /\ At(p, "add_conn")
    /\ IF holders[loc[p].hd].conn # Nil THEN
            /\ out' = HttpError("/upload",
                                "Active config for the same secret already exists", 409)
            /\ Return(p)
       ELSE
            /\ Goto(p, "add_store")
            /\ UNCHANGED <<out, loc>>
    /\ UNCHANGED <<configs, activeConfigs, gauge, holders, conns, fatal>>

\* Mutant of AddStore: add counts a replacement as a new entry.
AddStoreAlwaysCounts(p) ==
    /\ At(p, "add_store")
    /\ holders' = Append(holders, NewHolder(loc[p].content))
    /\ configs' = MapPut(configs, loc[p].id, Len(holders) + 1)
    /\ Goto(p, "add_load")
    /\ UNCHANGED <<activeConfigs, gauge, conns, loc, out, fatal>>

\* add: ch.configs[id] = config, the holder uploadHandler made for the content
AddStore(p) ==
    /\ At(p, "add_store")
    /\ holders' = Append(holders, NewHolder(loc[p].content))
    /\ configs' = MapPut(configs, loc[p].id, Len(holders) + 1)
    /\ Goto(p, IF loc[p].exists THEN "add_gauge" ELSE "add_load")
    /\ UNCHANGED <<activeConfigs, gauge, conns, loc, out, fatal>>

\* add: ch.activeConfigs += 1, the load
AddLoad(p) ==
    /\ At(p, "add_load")
    /\ loc' = [loc EXCEPT ![p].tmp = activeConfigs]
    /\ Goto(p, "add_inc")
    /\ UNCHANGED <<configs, activeConfigs, gauge, holders, conns, out, fatal>>

\* add: ch.activeConfigs += 1, the store
AddInc(p) ==
    /\ At(p, "add_inc")
    /\ activeConfigs' = loc[p].tmp + 1
    /\ Goto(p, "add_gauge")
    /\ UNCHANGED <<configs, gauge, holders, conns, loc, out, fatal>>

\* add: the argument of ActiveConfigs.Set, float64(ch.activeConfigs), is read
AddGaugeLoad(p) ==
    /\ At(p, "add_gauge")
    /\ loc' = [loc EXCEPT ![p].tmp = activeConfigs]
    /\ Goto(p, "add_set")
    /\ UNCHANGED <<configs, activeConfigs, gauge, holders, conns, out, fatal>>

\* add: ActiveConfigs.Set(...); return nil; uploadHandler answers 200 and the id
AddGauge(p) ==
    /\ At(p, "add_set")
    /\ gauge' = loc[p].tmp
    /\ out' = HttpOK("/upload", loc[p].id)
    /\ Return(p)
    /\ UNCHANGED <<configs, activeConfigs, holders, conns, fatal>>

\* ---------------------------------------------------------------- GET /ws
\* What a refused upgrade leaves as the response: upgrader.Upgrade answers 400
\* (not a websocket handshake), 403 (origin not allowed) or 500 (the connection
\* cannot be taken over), or closes the connection without any response.
UpgradeFailures == {HttpError("/ws", "Bad Request", 400),
                    HttpError("/ws", "Forbidden", 403),
                    HttpError("/ws", "Internal Server Error", 500)}

\* wsHandler: the upgrade and the read of the X-Secret header
StartWs(p, upgradeOk, secret) ==
    /\ CanStart(p)
    /\ IF ~upgradeOk THEN
            /\ out' \in UpgradeFailures \cup {out}
            /\ Return(p)
            /\ UNCHANGED conns
       ELSE IF secret = "" THEN
            /\ conns' = Append(conns, NewConn)
            /\ loc' = [loc EXCEPT ![p] = [NoLoc EXCEPT !.cn = Len(conns) + 1]]
            /\ Goto(p, "ws_nosecret")
            /\ UNCHANGED out
       ELSE
            /\ conns' = Append(conns, NewConn)
            /\ loc' = [loc EXCEPT ![p] = [NoLoc EXCEPT !.id = generateID(secret),
                                                      !.cn = Len(conns) + 1]]
            /\ Goto(p, "ws_get")
            /\ UNCHANGED out
    /\ UNCHANGED <<configs, activeConfigs, gauge, holders, fatal>>

\* wsHandler: without X-Secret the connection gets one frame and is closed
WsMissingSecret(p) ==
    /\ At(p, "ws_nosecret")
    /\ conns' = ConnClose(WriteMessage(conns, loc[p].cn, "Missing X-Secret header"),
                          loc[p].cn)
    /\ Return(p)
    /\ UNCHANGED <<configs, activeConfigs, gauge, holders, out, fatal>>

\* Mutant of WsGet: the delete is deferred before the lookup, so it also runs
\* for an unknown identifier.
WsGetDeferFirst(p) ==
    /\ At(p, "ws_get")
    /\ IF Get(configs, loc[p].id) # Nil THEN
            /\ loc' = [loc EXCEPT ![p].hd = Get(configs, loc[p].id)]
            /\ Goto(p, "ws_attach")
            /\ UNCHANGED conns
       ELSE
            /\ conns' = ConnClose(WriteMessage(conns, loc[p].cn, "Invalid X-Secret"),
                                  loc[p].cn)
            /\ Goto(p, "del_lookup")
            /\ UNCHANGED loc
    /\ UNCHANGED <<configs, activeConfigs, gauge, holders, out, fatal>>

\* wsHandler: configHolder := configs.get(id), and the else branch
WsGet(p) ==
    /\ At(p, "ws_get")
    /\ IF Get(configs, loc[p].id) # Nil THEN
            /\ loc' = [loc EXCEPT ![p].hd = Get(configs, loc[p].id)]
            /\ Goto(p, "ws_attach")
            /\ UNCHANGED conns
       ELSE
            /\ conns' = ConnClose(WriteMessage(conns, loc[p].cn, "Invalid X-Secret"),
                                  loc[p].cn)
            /\ Return(p)
    /\ UNCHANGED <<configs, activeConfigs, gauge, holders, out, fatal>>

\* wsHandler: configHolder.conn = conn; defer configs.delete(id)
WsAttach(p) ==
    /\ At(p, "ws_attach")
    /\ holders' = [holders EXCEPT ![loc[p].hd].conn = loc[p].cn]
    /\ Goto(p, "ws_read")
    /\ UNCHANGED <<configs, activeConfigs, gauge, conns, loc, out, fatal>>

\* conn.ReadMessage() fails once the connection is closed or broken
ReadFails(cs, k) == cs[k].closed \/ cs[k].peerGone

\* wsHandler: the producer sends a message, ReadMessage returns it without an
\* error, and the loop goes on
WsReadMessage(p) ==
    /\ At(p, "ws_read")
    /\ ~ReadFails(conns, loc[p].cn)
    /\ UNCHANGED <<configs, activeConfigs, gauge, holders, conns, pc, loc, out, fatal>>

\* wsHandler: the read fails, the loop breaks and the deferred delete runs
WsReadError(p) ==
    /\ At(p, "ws_read")
    /\ ReadFails(conns, loc[p].cn)
    /\ Goto(p, "del_lookup")
    /\ UNCHANGED <<configs, activeConfigs, gauge, holders, conns, loc, out, fatal>>

\* delete: configHolder, ok := ch.configs[id]
DelLookup(p) ==
    /\ At(p, "del_lookup")
    /\ loc' = [loc EXCEPT ![p].hd = Get(configs, loc[p].id)]
    /\ Goto(p, IF MapHas(configs, loc[p].id) THEN "del_close" ELSE "del_map")
    /\ UNCHANGED <<configs, activeConfigs, gauge, holders, conns, out, fatal>>

\* Mutant of DelClose: delete closes the connection of every entry.
DelCloseAll(p) ==
    /\ At(p, "del_close")
    /\ conns' = [k \in 1..Len(conns) |->
                    IF \E id \in DOMAIN configs : holders[configs[id]].conn = k
                    THEN [conns[k] EXCEPT !.closed = TRUE]
                    ELSE conns[k]]
    /\ Goto(p, "del_map")
    /\ UNCHANGED <<configs, activeConfigs, gauge, holders, loc, out, fatal>>

\* delete: if configHolder.conn != nil { configHolder.conn.Close() }
DelClose(p) ==
    /\ At(p, "del_close")
    /\ conns' = IF holders[loc[p].hd].conn # Nil
                THEN ConnClose(conns, holders[loc[p].hd].conn)
                ELSE conns
    /\ Goto(p, "del_map")
    /\ UNCHANGED <<configs, activeConfigs, gauge, holders, loc, out, fatal>>

\* Mutant of DelMap: the entry stays in the map.
DelMapKeeps(p) ==
    /\ At(p, "del_map")
    /\ Goto(p, "del_load")
    /\ UNCHANGED <<configs, activeConfigs, gauge, holders, conns, loc, out, fatal>>

\* delete: delete(ch.configs, id)
DelMap(p) ==
    /\ At(p, "del_map")
    /\ configs' = MapDelete(configs, loc[p].id)
    /\ Goto(p, "del_load")
    /\ UNCHANGED <<activeConfigs, gauge, holders, conns, loc, out, fatal>>

\* delete: ch.activeConfigs -= 1, the load
DelLoad(p) ==
    /\ At(p, "del_load")
    /\ loc' = [loc EXCEPT ![p].tmp = activeConfigs]
    /\ Goto(p, "del_dec")
    /\ UNCHANGED <<configs, activeConfigs, gauge, holders, conns, out, fatal>>

\* delete: ch.activeConfigs -= 1, the store
DelDec(p) ==
    /\ At(p, "del_dec")
    /\ activeConfigs' = loc[p].tmp - 1
    /\ Goto(p, "del_gauge")
    /\ UNCHANGED <<configs, gauge, holders, conns, loc, out, fatal>>

\* delete: the argument of ActiveConfigs.Set, float64(ch.activeConfigs), is read
DelGaugeLoad(p) ==
    /\ At(p, "del_gauge")
    /\ loc' = [loc EXCEPT ![p].tmp = activeConfigs]
    /\ Goto(p, "del_set")
    /\ UNCHANGED <<configs, activeConfigs, gauge, holders, conns, out, fatal>>

\* delete: ActiveConfigs.Set(...); wsHandler returns
DelGauge(p) ==
    /\ At(p, "del_set")
    /\ gauge' = loc[p].tmp
    /\ Return(p)
    /\ UNCHANGED <<configs, activeConfigs, holders, conns, out, fatal>>

\* --------------------------------------------------------- GET /pac/{id}
\* pacHandlerWithID up to the lookup
StartPac(p, path, client) ==
    /\ CanStart(p)
    /\ IF TrimPrefix(path, "/pac/") = "" THEN
            /\ out' = HttpError("/pac", "Missing id parameter", 400)
            /\ Return(p)
       ELSE
            /\ loc' = [loc EXCEPT ![p] = [NoLoc EXCEPT !.id = TrimPrefix(path, "/pac/"),
                                                      !.msg = AccessMessage(client)]]
            /\ Goto(p, "pac_get")
            /\ UNCHANGED out
    /\ UNCHANGED <<configs, activeConfigs, gauge, holders, conns, fatal>>

\* Mutant of PacGet: a lookup that misses creates an empty entry.
PacGetCreates(p) ==
    /\ At(p, "pac_get")
    /\ IF Get(configs, loc[p].id) = Nil THEN
            /\ out' = HttpOK("/pac", directPacContent)
            /\ holders' = Append(holders, NewHolder(""))
            /\ configs' = MapPut(configs, loc[p].id, Len(holders) + 1)
            /\ Return(p)
       ELSE
            /\ out' = HttpOK("/pac", holders[Get(configs, loc[p].id)].content)
            /\ loc' = [loc EXCEPT ![p].hd = Get(configs, loc[p].id)]
            /\ Goto(p, "send_check")
            /\ UNCHANGED <<configs, holders>>
    /\ UNCHANGED <<activeConfigs, gauge, conns, fatal>>

\* pacHandlerWithID: config := configs.get(id) and the response body
PacGet(p) ==
    /\ At(p, "pac_get")
    /\ IF Get(configs, loc[p].id) = Nil THEN
            /\ out' = HttpOK("/pac", directPacContent)
            /\ Return(p)
       ELSE
            /\ out' = HttpOK("/pac", holders[Get(configs, loc[p].id)].content)
            /\ loc' = [loc EXCEPT ![p].hd = Get(configs, loc[p].id)]
            /\ Goto(p, "send_check")
    /\ UNCHANGED <<configs, activeConfigs, gauge, holders, conns, fatal>>

\* sendMessageToSocket: if holder.conn == nil { return }
SendCheck(p) ==
    /\ At(p, "send_check")
    /\ IF holders[loc[p].hd].conn = Nil
       THEN Return(p)
       ELSE Goto(p, "send_lock") /\ UNCHANGED loc
    /\ UNCHANGED <<configs, activeConfigs, gauge, holders, conns, out, fatal>>

\* Mutant of SendLock: the push does not wait for the entry's mutex.
SendLockNoWait(p) ==
    /\ At(p, "send_lock")
    /\ holders' = [holders EXCEPT ![loc[p].hd].mutex = p]
    /\ Goto(p, "send_write")
    /\ UNCHANGED <<configs, activeConfigs, gauge, conns, loc, out, fatal>>

\* sendMessageToSocket: holder.mutex.Lock()
SendLock(p) ==
    /\ At(p, "send_lock")
    /\ holders[loc[p].hd].mutex = 0
    /\ holders' = [holders EXCEPT ![loc[p].hd].mutex = p]
    /\ Goto(p, "send_write")
    /\ UNCHANGED <<configs, activeConfigs, gauge, conns, loc, out, fatal>>

\* Mutant of SendWrite: a failed write is retried once.
SendWriteTwice(p) ==
    /\ At(p, "send_write")
    /\ conns' = WriteMessage(WriteMessage(conns, holders[loc[p].hd].conn, loc[p].msg),
                             holders[loc[p].hd].conn, loc[p].msg)
    /\ Goto(p, "send_unlock")
    /\ UNCHANGED <<configs, activeConfigs, gauge, holders, loc, out, fatal>>

\* Mutant of SendWrite: a failed write closes the connection.
SendWriteClosesOnError(p) ==
    /\ At(p, "send_write")
    /\ conns' = IF WriteOk(conns, holders[loc[p].hd].conn)
                THEN WriteMessage(conns, holders[loc[p].hd].conn, loc[p].msg)
                ELSE ConnClose(conns, holders[loc[p].hd].conn)
    /\ Goto(p, "send_unlock")
    /\ UNCHANGED <<configs, activeConfigs, gauge, holders, loc, out, fatal>>

\* sendMessageToSocket: holder.conn.WriteMessage(...), an error is only printed
SendWrite(p) ==
    /\ At(p, "send_write")
    /\ conns' = WriteMessage(conns, holders[loc[p].hd].conn, loc[p].msg)
    /\ Goto(p, "send_unlock")
    /\ UNCHANGED <<configs, activeConfigs, gauge, holders, loc, out, fatal>>

\* sendMessageToSocket: the deferred holder.mutex.Unlock()
SendUnlock(p) ==
    /\ At(p, "send_unlock")
    /\ holders' = [holders EXCEPT ![loc[p].hd].mutex = 0]
    /\ Return(p)
    /\ UNCHANGED <<configs, activeConfigs, gauge, conns, out, fatal>>

\* ------------------------------------------------------------- environment
\* the producer closes its websocket, or the network drops it
PeerDisconnect(k) ==
    /\ ~fatal
    /\ k \in 1..Len(conns)
    /\ ~conns[k].peerGone /\ ~conns[k].closed
    /\ conns' = [conns EXCEPT ![k].peerGone = TRUE]
    /\ UNCHANGED <<configs, activeConfigs, gauge, holders, pc, loc, out, fatal>>

\* Unsynchronised map access: a goroutine about to write ch.configs while
\* another is about to read or write it.  The runtime may detect it and abort
\* the process ("fatal error: concurrent map writes").
MapWritePcs == {"add_store", "del_map"}
MapAccessPcs == MapWritePcs \cup {"add_lookup", "del_lookup", "ws_get", "pac_get"}
MapRace ==
    \E p, q \in Procs : p # q /\ pc[p] \in MapWritePcs /\ pc[q] \in MapAccessPcs

ConcurrentMapAccess ==
    /\ ~fatal
    /\ MapRace
    /\ fatal' = TRUE
    /\ UNCHANGED <<configs, activeConfigs, gauge, holders, conns, pc, loc, out>>

\* ----------------------------------------------------------- specification
\* The requests of the concurrent runs: well-formed ones, whose handlers reach
\* the registry.
ConcContents == {"X"}
ConcClients == {[realIP |-> "", remoteAddr |-> "10.0.0.7:5555", agent |-> "curl"]}

\* handlers run concurrently, MaxInFlight of them at a time (a handler that
\* leaves its read loop to run its delete counts among them)
Next ==
    \/ \E p \in Procs, s \in Secrets, c \in ConcContents :
           StartUpload(p, "POST", FALSE, s, c) /\ UNCHANGED cur
    \/ \E p \in Procs : AddLookup(p) /\ UNCHANGED cur
    \/ \E p \in Procs : AddConn(p) /\ UNCHANGED cur
    \/ \E p \in Procs : AddStore(p) /\ UNCHANGED cur
    \/ \E p \in Procs : AddLoad(p) /\ UNCHANGED cur
    \/ \E p \in Procs : AddInc(p) /\ UNCHANGED cur
    \/ \E p \in Procs : AddGaugeLoad(p) /\ UNCHANGED cur
    \/ \E p \in Procs : AddGauge(p) /\ UNCHANGED cur
    \/ \E p \in Procs, s \in Secrets : StartWs(p, TRUE, s) /\ UNCHANGED cur
    \/ \E p \in Procs : WsGet(p) /\ UNCHANGED cur
    \/ \E p \in Procs : WsAttach(p) /\ UNCHANGED cur
    \/ \E p \in Procs : WsReadMessage(p) /\ UNCHANGED cur
    \/ \E p \in Procs : WsReadError(p) /\ InFlight < MaxInFlight /\ UNCHANGED cur
    \/ \E p \in Procs : DelLookup(p) /\ UNCHANGED cur
    \/ \E p \in Procs : DelClose(p) /\ UNCHANGED cur
    \/ \E p \in Procs : DelMap(p) /\ UNCHANGED cur
    \/ \E p \in Procs : DelLoad(p) /\ UNCHANGED cur
    \/ \E p \in Procs : DelDec(p) /\ UNCHANGED cur
    \/ \E p \in Procs : DelGaugeLoad(p) /\ UNCHANGED cur
    \/ \E p \in Procs : DelGauge(p) /\ UNCHANGED cur
    \/ \E p \in Procs, path \in Paths, c \in ConcClients : StartPac(p, path, c) /\ UNCHANGED cur
    \/ \E p \in Procs : PacGet(p) /\ UNCHANGED cur
    \/ \E p \in Procs : SendCheck(p) /\ UNCHANGED cur
    \/ \E p \in Procs : SendLock(p) /\ UNCHANGED cur
    \/ \E p \in Procs : SendWrite(p) /\ UNCHANGED cur
    \/ \E p \in Procs : SendUnlock(p) /\ UNCHANGED cur
    \/ \E k \in 1..Len(conns) : PeerDisconnect(k) /\ UNCHANGED cur
    \/ ConcurrentMapAccess /\ UNCHANGED cur

Spec == Init /\ [][Next]_vars

\* one handler runs at a time; the others have returned or wait in their read loop
Alone(p) == \A q \in Procs : q # p => ~Running(q)

SeqNext ==
    \/ \E p \in Procs : pc[p] = "idle" /\ Alone(p) /\
           \E r \in UploadRequests :
               /\ StartUpload(p, r.method, r.bodyErr, r.secret, r.content)
               /\ cur' = Begin("upload", p,
                               [NoArgs EXCEPT !.method = r.method, !.bodyErr = r.bodyErr,
                                              !.secret = r.secret, !.content = r.content])
    \/ \E p \in Procs : AddLookup(p) /\ Alone(p) /\ UNCHANGED cur
    \/ \E p \in Procs : AddConn(p) /\ Alone(p) /\ UNCHANGED cur
    \/ \E p \in Procs : AddStore(p) /\ Alone(p) /\ UNCHANGED cur
    \/ \E p \in Procs : AddLoad(p) /\ Alone(p) /\ UNCHANGED cur
    \/ \E p \in Procs : AddInc(p) /\ Alone(p) /\ UNCHANGED cur
    \/ \E p \in Procs : AddGaugeLoad(p) /\ Alone(p) /\ UNCHANGED cur
    \/ \E p \in Procs : AddGauge(p) /\ Alone(p) /\ UNCHANGED cur
    \/ \E p \in Procs : pc[p] = "idle" /\ Alone(p) /\
           \E r \in WsRequests :
               /\ StartWs(p, r.upgradeOk, r.secret)
               /\ cur' = Begin("ws", p, [NoArgs EXCEPT !.upgradeOk = r.upgradeOk,
                                                      !.secret = r.secret,
                                                      !.cn = Len(conns) + 1])
    \/ \E p \in Procs : WsMissingSecret(p) /\ Alone(p) /\ UNCHANGED cur
    \/ \E p \in Procs : WsGet(p) /\ Alone(p) /\ UNCHANGED cur
    \/ \E p \in Procs : WsAttach(p) /\ Alone(p) /\ UNCHANGED cur
    \/ \E p \in Procs : WsReadMessage(p) /\ Alone(p) /\ UNCHANGED cur
    \/ \E p \in Procs : WsReadError(p) /\ Alone(p)
           /\ cur' = Begin("delete", p, [NoArgs EXCEPT !.id = loc[p].id, !.cn = loc[p].cn])
    \/ \E p \in Procs : DelLookup(p) /\ Alone(p) /\ UNCHANGED cur
    \/ \E p \in Procs : DelClose(p) /\ Alone(p) /\ UNCHANGED cur
    \/ \E p \in Procs : DelMap(p) /\ Alone(p) /\ UNCHANGED cur
    \/ \E p \in Procs : DelLoad(p) /\ Alone(p) /\ UNCHANGED cur
    \/ \E p \in Procs : DelDec(p) /\ Alone(p) /\ UNCHANGED cur
    \/ \E p \in Procs : DelGaugeLoad(p) /\ Alone(p) /\ UNCHANGED cur
    \/ \E p \in Procs : DelGauge(p) /\ Alone(p) /\ UNCHANGED cur
    \/ \E p \in Procs : pc[p] = "idle" /\ Alone(p) /\
           \E r \in PacRequests :
               /\ StartPac(p, r.path, r.client)
               /\ cur' = Begin("pac", p, [NoArgs EXCEPT !.path = r.path,
                                                       !.msg = AccessMessage(r.client)])
    \/ \E p \in Procs : PacGet(p) /\ Alone(p) /\ UNCHANGED cur
    \/ \E p \in Procs : SendCheck(p) /\ Alone(p) /\ UNCHANGED cur
    \/ \E p \in Procs : SendLock(p) /\ Alone(p) /\ UNCHANGED cur
    \/ \E p \in Procs : SendWrite(p) /\ Alone(p) /\ UNCHANGED cur
    \/ \E p \in Procs : SendUnlock(p) /\ Alone(p) /\ UNCHANGED cur
    \/ \E k \in 1..Len(conns) : PeerDisconnect(k) /\ UNCHANGED cur

SeqSpec == Init /\ [][SeqNext]_vars

\* a step of the handler of request p, other than waiting for the next message:
\* the scheduler runs every goroutine that can run
HandlerStep(p) ==
    \/ /\ \/ AddLookup(p) \/ AddConn(p) \/ AddStore(p) \/ AddLoad(p) \/ AddInc(p)
          \/ AddGaugeLoad(p) \/ AddGauge(p) \/ WsMissingSecret(p) \/ WsGet(p) \/ WsAttach(p)
          \/ DelLookup(p) \/ DelClose(p) \/ DelMap(p) \/ DelLoad(p) \/ DelDec(p)
          \/ DelGaugeLoad(p) \/ DelGauge(p) \/ PacGet(p) \/ SendCheck(p) \/ SendLock(p) \/ SendWrite(p)
          \/ SendUnlock(p)
       /\ Alone(p)
       /\ UNCHANGED cur
    \/ /\ WsReadError(p)
       /\ Alone(p)
       /\ cur' = Begin("delete", p, [NoArgs EXCEPT !.id = loc[p].id, !.cn = loc[p].cn])

\* the sequential runs in which no handler that can take a step waits forever
FairSeqSpec == SeqSpec /\ \A p \in Procs : WF_vars(HandlerStep(p))

\* The server with two producers connected: POST /upload and GET /ws have been
\* served for each secret, the upload handlers have returned and the websocket
\* handlers (requests 1 and 2) wait in their read loops.  The requests still to
\* come run concurrently as in Spec.
PushInit ==
    /\ configs = [id \in {generateID("abc"), generateID("a")} |->
                      IF id = generateID("abc") THEN 1 ELSE 2]
    /\ activeConfigs = 2
    /\ gauge = 2
    /\ holders = <<[NewHolder("X") EXCEPT !.conn = 1], [NewHolder("X") EXCEPT !.conn = 2]>>
    /\ conns = <<NewConn, NewConn>>
    /\ pc = [p \in Procs |-> IF p <= 2 THEN "ws_read" ELSE "idle"]
    /\ loc = [p \in Procs |->
                 IF p = 1 THEN [NoLoc EXCEPT !.id = generateID("abc"), !.cn = 1, !.hd = 1]
                 ELSE IF p = 2 THEN [NoLoc EXCEPT !.id = generateID("a"), !.cn = 2, !.hd = 2]
                 ELSE NoLoc]
    /\ out = HttpOK("/upload", generateID("a"))
    /\ fatal = FALSE
    /\ cur = NoRequest

\* the requests to come are GET /pac/{id}; meanwhile producers may disconnect
PushNext ==
    \/ \E p \in Procs, path \in Paths, c \in ConcClients : StartPac(p, path, c) /\ UNCHANGED cur
    \/ \E p \in Procs : PacGet(p) /\ UNCHANGED cur
    \/ \E p \in Procs : SendCheck(p) /\ UNCHANGED cur
    \/ \E p \in Procs : SendLock(p) /\ UNCHANGED cur
    \/ \E p \in Procs : SendWrite(p) /\ UNCHANGED cur
    \/ \E p \in Procs : SendUnlock(p) /\ UNCHANGED cur
    \/ \E p \in Procs : WsReadMessage(p) /\ UNCHANGED cur
    \/ \E p \in Procs : WsReadError(p) /\ UNCHANGED cur
    \/ \E p \in Procs : DelLookup(p) /\ UNCHANGED cur
    \/ \E p \in Procs : DelClose(p) /\ UNCHANGED cur
    \/ \E p \in Procs : DelMap(p) /\ UNCHANGED cur
    \/ \E p \in Procs : DelLoad(p) /\ UNCHANGED cur
    \/ \E p \in Procs : DelDec(p) /\ UNCHANGED cur
    \/ \E p \in Procs : DelGaugeLoad(p) /\ UNCHANGED cur
    \/ \E p \in Procs : DelGauge(p) /\ UNCHANGED cur
    \/ \E k \in 1..Len(conns) : PeerDisconnect(k) /\ UNCHANGED cur
    \/ ConcurrentMapAccess /\ UNCHANGED cur

PushSpec == PushInit /\ [][PushNext]_vars

\* ------------------------------------------------------------------ claims
\* no handler is between two of its steps
Quiet == \A p \in Procs : ~Running(p)

\* the request cur, of kind op, has been served (a websocket handler has
\* returned or waits in its read loop)
Served(op) == Quiet /\ cur.op = op

\* in registry state r, id has an entry / an entry with a connection attached
Present(r, id) == MapHas(r.configs, id)
Attached(r, id) == Present(r, id) /\ r.holders[r.configs[id]].conn # Nil
Now == Snapshot

\* the upload request passes uploadHandler's input checks
ValidUpload(a) == a.method = "POST" /\ ~a.bodyErr /\ a.secret # ""

\* the server closed no connection and sent no frame since the request started
ConnsUntouched ==
    /\ Len(conns) = Len(cur.pre.conns)
    /\ \A k \in 1..Len(conns) :
           /\ conns[k].closed = cur.pre.conns[k].closed
           /\ conns[k].frames = cur.pre.conns[k].frames

\* map, entries (content, connection, mutex), counter and gauge are as they were
\* when the request started
RegistryUntouched ==
    /\ configs = cur.pre.configs
    /\ holders = cur.pre.holders
    /\ activeConfigs = cur.pre.activeConfigs
    /\ gauge = cur.pre.gauge

\* C1: whenever no handler is in the middle of a registry operation, activeConfigs
\* equals the number of identifiers present in configs.
C1_CountEqualsEntries ==
    Quiet => activeConfigs = Cardinality(DOMAIN configs)

\* C2: an upload for an identifier whose entry has a connection attached is
\* answered 409 and leaves map, entries, counter, gauge and connections as they were.
C2_ConflictRejected ==
    (Served("upload") /\ ValidUpload(cur.args)
        /\ Attached(cur.pre, generateID(cur.args.secret)))
    => /\ out = HttpError("/upload",
                          "Active config for the same secret already exists", 409)
       /\ RegistryUntouched
       /\ ConnsUntouched

C2_Witness ==
    /\ Served("upload") /\ ValidUpload(cur.args)
    /\ Attached(cur.pre, generateID(cur.args.secret))
    /\ out.status = 409
    /\ holders[configs[generateID(cur.args.secret)]].content # cur.args.content
    /\ ~conns[holders[configs[generateID(cur.args.secret)]].conn].closed

\* C3: an upload for an identifier with no attached entry succeeds and stores its
\* content; the counter grows by one when the identifier was absent and stays as it
\* was when an unattached entry was replaced (so add, add counts one entry).
C3_AddThenReplace ==
    (Served("upload") /\ ValidUpload(cur.args)
        /\ ~Attached(cur.pre, generateID(cur.args.secret)))
    => LET id == generateID(cur.args.secret) IN
       /\ out = HttpOK("/upload", id)
       /\ Present(Now, id)
       /\ holders[configs[id]].content = cur.args.content
       /\ holders[configs[id]].conn = Nil
       /\ activeConfigs = cur.pre.activeConfigs + (IF Present(cur.pre, id) THEN 0 ELSE 1)
       /\ DOMAIN configs = DOMAIN cur.pre.configs \cup {id}
       /\ \A k \in DOMAIN cur.pre.configs : k # id => configs[k] = cur.pre.configs[k]

\* the second add of the sequence: the entry was there, unattached, with other content
C3_Witness ==
    /\ Served("upload") /\ ValidUpload(cur.args)
    /\ Present(cur.pre, generateID(cur.args.secret))
    /\ ~Attached(cur.pre, generateID(cur.args.secret))
    /\ cur.pre.holders[cur.pre.configs[generateID(cur.args.secret)]].content
           # cur.args.content
    /\ out.status = 200
    /\ cur.pre.activeConfigs = 1 /\ activeConfigs = 1


\* the identifier GET /pac/{id} asks for
PacID(a) == TrimPrefix(a.path, "/pac/")

\* C4: once the handler of a disconnected connection has run delete(id), id has
\* no entry; a GET /pac/{id} served right after a delete(id) returns the fallback
\* script, and an upload for id served right after it succeeds.
C4_DisconnectRemovesEntry ==
    /\ Served("delete") => ~Present(Now, cur.args.id)
    /\ (Served("pac") /\ cur.prev.op = "delete" /\ PacID(cur.args) = cur.prev.args.id)
       => out = HttpOK("/pac", directPacContent)
    /\ (Served("upload") /\ ValidUpload(cur.args) /\ cur.prev.op = "delete"
           /\ generateID(cur.args.secret) = cur.prev.args.id)
       => /\ out = HttpOK("/upload", cur.prev.args.id)
          /\ Present(Now, cur.prev.args.id)

\* an upload that succeeds right after the delete of the attached entry of its id
C4_Witness ==
    /\ Served("upload") /\ cur.prev.op = "delete"
    /\ generateID(cur.args.secret) = cur.prev.args.id
    /\ out.status = 200
    /\ \E h \in 1..Len(holders) :
           /\ holders[h].conn = cur.prev.args.cn
           /\ conns[holders[h].conn].closed
           /\ configs[cur.prev.args.id] # h

\* C5: a GET /pac/{id} that finds an entry with an attached connection writes its
\* message on that connection once, after its response: at most one frame, exactly
\* one when the connection is still open, and none on any other connection; a GET
\* for an identifier without entry or without connection writes no frame at all.
C5_OneFramePerAccess ==
    /\ (Served("pac") /\ PacID(cur.args) # "")
       => /\ Len(conns) = Len(cur.pre.conns)
          /\ \A k \in 1..Len(conns) : conns[k].closed = cur.pre.conns[k].closed
          /\ IF Attached(cur.pre, PacID(cur.args)) THEN
                 LET k == cur.pre.holders[cur.pre.configs[PacID(cur.args)]].conn IN
                 /\ \A j \in 1..Len(conns) :
                        j # k => conns[j].frames = cur.pre.conns[j].frames
                 /\ conns[k].frames \in {cur.pre.conns[k].frames,
                                         Append(cur.pre.conns[k].frames, cur.args.msg)}
                 /\ WriteOk(conns, k)
                        => conns[k].frames = Append(cur.pre.conns[k].frames, cur.args.msg)
             ELSE \A j \in 1..Len(conns) : conns[j].frames = cur.pre.conns[j].frames
    /\ \A p \in Procs :
           pc[p] \in {"send_check", "send_lock", "send_write", "send_unlock"}
           => out = HttpOK("/pac", holders[loc[p].hd].content)

C5_Witness ==
    /\ Served("pac")
    /\ Attached(cur.pre, PacID(cur.args))
    /\ LET k == cur.pre.holders[cur.pre.configs[PacID(cur.args)]].conn IN
       /\ cur.pre.conns[k].frames = << >>
       /\ conns[k].frames = <<"Config accessed by 10.0.0.7 curl">>

\* C6: an upload with secret s and body c answers generateID(s) and stores c under
\* it; a websocket opened with s looks up that same identifier; and a GET
\* /pac/{id} served right after the upload, with the id it answered, returns c.
C6_RoundTrip ==
    /\ (Served("upload") /\ ValidUpload(cur.args) /\ out.status = 200)
       => /\ out.body = generateID(cur.args.secret)
          /\ Present(Now, out.body)
          /\ holders[configs[out.body]].content = cur.args.content
    /\ (Served("ws") /\ cur.args.upgradeOk /\ cur.args.secret # "")
       => IF Present(cur.pre, generateID(cur.args.secret))
          THEN /\ pc[cur.p] = "ws_read"
               /\ holders[configs[generateID(cur.args.secret)]].conn = cur.args.cn
          ELSE pc[cur.p] = "done"
    /\ (Served("pac") /\ cur.prev.op = "upload" /\ ValidUpload(cur.prev.args)
           /\ cur.pre.out.status = 200
           /\ cur.args.path = "/pac/" \o cur.pre.out.body)
       => out = HttpOK("/pac", cur.prev.args.content)

C6_Witness ==
    /\ Served("pac") /\ cur.prev.op = "upload"
    /\ cur.prev.args.secret = "abc" /\ cur.prev.args.content = "X"
    /\ cur.pre.out = HttpOK("/upload", "a9993e364706816aba3e25717850c26c9cd0d89d")
    /\ cur.args.path = "/pac/" \o cur.pre.out.body
    /\ out.body = "X"

\* C7: once uploads that ran concurrently have all returned (no websocket was
\* ever opened, so nothing was deleted), activeConfigs equals the number of
\* entries they created.
C7_ConcurrentAddsCounted ==
    (Quiet /\ ~fatal /\ Len(conns) = 0) => activeConfigs = Cardinality(DOMAIN configs)

\* C8: a GET /pac/{id} leaves map, entries, counter, gauge and the open/closed
\* state of every connection as they were; for an identifier without entry it
\* returns the fallback script and writes no frame, for a known one the stored
\* content.
C8_LookupsDoNotMutate ==
    (Served("pac") /\ PacID(cur.args) # "")
    => /\ RegistryUntouched
       /\ Len(conns) = Len(cur.pre.conns)
       /\ \A k \in 1..Len(conns) : conns[k].closed = cur.pre.conns[k].closed
       /\ IF Present(cur.pre, PacID(cur.args))
          THEN out = HttpOK("/pac",
                            cur.pre.holders[cur.pre.configs[PacID(cur.args)]].content)
          ELSE /\ Get(cur.pre.configs, PacID(cur.args)) = Nil
               /\ out = HttpOK("/pac", directPacContent)
               /\ ConnsUntouched

\* a GET for an identifier that had an entry, was deleted, and is still absent
C8_Witness ==
    /\ Served("pac") /\ PacID(cur.args) # ""
    /\ ~Present(cur.pre, PacID(cur.args))
    /\ cur.pre.configs # << >>
    /\ out = HttpOK("/pac", directPacContent)
    /\ configs = cur.pre.configs

\* C9: a websocket whose secret has no entry gets one "Invalid X-Secret" frame (if
\* the frame can still be written) and is closed; its handler returns without
\* deferring a delete, and map, entries, counter and gauge are as they were.
C9_UnknownSecretRejected ==
    (Served("ws") /\ cur.args.upgradeOk /\ cur.args.secret # ""
        /\ ~Present(cur.pre, generateID(cur.args.secret)))
    => /\ pc[cur.p] = "done"
       /\ RegistryUntouched
       /\ Len(conns) = Len(cur.pre.conns) + 1
       /\ conns[cur.args.cn].closed
       /\ \/ conns[cur.args.cn].frames = <<"Invalid X-Secret">>
          \/ conns[cur.args.cn].peerGone /\ conns[cur.args.cn].frames = << >>
       /\ \A k \in 1..Len(cur.pre.conns) :
              /\ conns[k].closed = cur.pre.conns[k].closed
              /\ conns[k].frames = cur.pre.conns[k].frames

C9_Witness ==
    /\ Served("ws") /\ cur.args.upgradeOk /\ cur.args.secret = "abc"
    /\ Present(cur.pre, generateID("a")) /\ ~Present(cur.pre, generateID("abc"))
    /\ conns[cur.args.cn].frames = <<"Invalid X-Secret">>
    /\ conns[cur.args.cn].closed
    /\ cur.pre.activeConfigs = 1 /\ activeConfigs = 1

\* C10: an upload with a wrong method or without X-Secret and a GET /pac/ without
\* id are answered 400, a websocket without X-Secret gets one frame (if the frame
\* can still be written) and is closed;
\* each leaves map, entries, counter, gauge and the other connections as they were.
C10_InputErrorsDoNotMutate ==
    /\ (Served("upload") /\ cur.args.method # "POST")
       => /\ out = HttpError("/upload", "Invalid method, use POST", 400)
          /\ RegistryUntouched /\ ConnsUntouched
    /\ (Served("upload") /\ cur.args.method = "POST" /\ ~cur.args.bodyErr
           /\ cur.args.secret = "")
       => /\ out = HttpError("/upload", "Missing X-Secret header", 400)
          /\ RegistryUntouched /\ ConnsUntouched
    /\ (Served("ws") /\ cur.args.upgradeOk /\ cur.args.secret = "")
       => /\ pc[cur.p] = "done"
          /\ RegistryUntouched
          /\ Len(conns) = Len(cur.pre.conns) + 1
          /\ conns[cur.args.cn].closed
          /\ \/ conns[cur.args.cn].frames = <<"Missing X-Secret header">>
             \/ conns[cur.args.cn].peerGone /\ conns[cur.args.cn].frames = << >>
          /\ \A k \in 1..Len(cur.pre.conns) :
                 /\ conns[k].closed = cur.pre.conns[k].closed
                 /\ conns[k].frames = cur.pre.conns[k].frames
    /\ (Served("pac") /\ PacID(cur.args) = "")
       => /\ out = HttpError("/pac", "Missing id parameter", 400)
          /\ RegistryUntouched /\ ConnsUntouched

\* an upload without X-Secret, refused while an entry with a connection exists
C10_Witness ==
    /\ Served("upload") /\ cur.args.method = "POST" /\ ~cur.args.bodyErr
    /\ cur.args.secret = ""
    /\ out.status = 400
    /\ \E id \in DOMAIN configs : Attached(Now, id)
    /\ activeConfigs = 1

\* C11: a delete(id) that finds no entry for id leaves map, entries, counter and
\* gauge as they were, so a second delete(id) changes nothing the first one left.
C11_DeleteMissingIsNoop ==
    (Served("delete") /\ ~Present(cur.pre, cur.args.id)) => RegistryUntouched

\* C12: once an upload that replaced an unattached entry and a websocket attach
\* for the same identifier have both completed, in whatever order their steps
\* interleaved, the connection is attached to the entry the registry maps the
\* identifier to.  (With one connection upgraded so far and its handler in the
\* read loop, nothing but such an upload has touched the entry.)
C12_AttachNotLost ==
    (Quiet /\ ~fatal /\ Len(conns) = 1)
    => \A p \in Procs :
           pc[p] = "ws_read"
           => /\ Present(Now, loc[p].id)
              /\ holders[configs[loc[p].id]].conn = loc[p].cn

\* C13: once the conn field of an entry holds a connection, no step of any
\* handler puts another value there: the channel of an entry is set at most once.
C13_ChannelSetOnce ==
    [][\A h \in 1..Len(holders) :
           holders[h].conn # Nil => holders'[h].conn = holders[h].conn]_vars

\* C14: a delete(id) run by the handler of one connection does not remove an
\* entry whose attached connection is another one that is still open: after
\* such a delete the entry is still registered and that connection not closed.
C14_RemovedOnlyByOwnConnection ==
    (Served("delete") /\ Attached(cur.pre, cur.args.id))
    => LET k == cur.pre.holders[cur.pre.configs[cur.args.id]].conn IN
       (k # cur.args.cn /\ ~cur.pre.conns[k].closed /\ ~cur.pre.conns[k].peerGone)
       => /\ Present(Now, cur.args.id)
          /\ configs[cur.args.id] = cur.pre.configs[cur.args.id]
          /\ ~conns[k].closed

\* C15: a delete(id) triggered by a disconnect leaves an entry for id that has no
\* connection attached where it is: the identifier stays registered with the same
\* entry.
C15_UnattachedNeverDeleted ==
    (Served("delete") /\ Present(cur.pre, cur.args.id) /\ ~Attached(cur.pre, cur.args.id))
    => /\ Present(Now, cur.args.id)
       /\ configs[cur.args.id] = cur.pre.configs[cur.args.id]

\* C16: whenever the read on an attached connection fails (the peer is gone or
\* the connection was closed) while its handler is in the read loop, eventually
\* that connection is closed and no registered entry has it as its channel.
C16_CleanupHappens ==
    \A k \in 1..NProcs :
        (/\ k <= Len(conns)
         /\ ReadFails(conns, k)
         /\ \E p \in Procs : pc[p] = "ws_read" /\ loc[p].cn = k)
        ~> (/\ k <= Len(conns)
            /\ conns[k].closed
            /\ \A id \in DOMAIN configs : holders[configs[id]].conn # k)

\* the part of sendMessageToSocket between Lock and Unlock
InWrite(p) == pc[p] \in {"send_write", "send_unlock"}

\* C17: pushes to one entry are serialized by its mutex and pushes to different
\* entries do not wait for each other: no two pushes are about to write on the
\* same connection; a push between Lock and Unlock holds the mutex of its entry,
\* and a mutex is held only by such a push (so it is released when the push
\* returns); a push waiting for a mutex waits only for a push to the same entry.
C17_PushesSerialized ==
    /\ \A p, q \in Procs :
           (p # q /\ pc[p] = "send_write" /\ pc[q] = "send_write")
           => /\ loc[p].hd # loc[q].hd
              /\ holders[loc[p].hd].conn # holders[loc[q].hd].conn
    /\ \A p \in Procs : InWrite(p) => holders[loc[p].hd].mutex = p
    /\ \A h \in 1..Len(holders) :
           holders[h].mutex # 0
           => InWrite(holders[h].mutex) /\ loc[holders[h].mutex].hd = h
    /\ \A q \in Procs :
           (pc[q] = "send_lock" /\ holders[loc[q].hd].mutex # 0)
           => \E p \in Procs : p # q /\ InWrite(p) /\ loc[p].hd = loc[q].hd

\* two pushes at once, each holding the mutex of its own entry, neither written yet
C17_Witness ==
    \E p, q \in Procs :
        /\ pc[p] = "send_write" /\ pc[q] = "send_write"
        /\ loc[p].hd # loc[q].hd
        /\ holders[loc[p].hd].conn = 1 /\ holders[loc[q].hd].conn = 2
        /\ conns[1].frames = << >> /\ conns[2].frames = << >>

\* C18: the notification of a GET /pac/{id} that found an entry changes nothing
\* in the registry: the entry stays registered with the same content and channel,
\* its mutex is free again, counter and gauge are as before, and no connection
\* has been closed.  Without a channel it writes no frame and never reaches the
\* lock; with one it writes at most one frame, none when the write failed.
C18_NotifyKeepsRegistry ==
    /\ (Served("pac") /\ Present(cur.pre, PacID(cur.args)))
       => LET k == cur.pre.holders[cur.pre.configs[PacID(cur.args)]].conn IN
          /\ RegistryUntouched
          /\ Len(conns) = Len(cur.pre.conns)
          /\ \A j \in 1..Len(conns) : conns[j].closed = cur.pre.conns[j].closed
          /\ IF k = Nil THEN ConnsUntouched
             ELSE /\ Len(conns[k].frames) <= Len(cur.pre.conns[k].frames) + 1
                  /\ ~WriteOk(cur.pre.conns, k)
                         => conns[k].frames = cur.pre.conns[k].frames
                  /\ WriteOk(conns, k)
                         => conns[k].frames = Append(cur.pre.conns[k].frames, cur.args.msg)
    /\ \A p \in Procs :
           pc[p] \in {"send_lock", "send_write", "send_unlock"}
           => holders[loc[p].hd].conn # Nil

\* a notification whose write failed: the producer was gone, the entry and its
\* connection are as they were, the connection still not closed by the server
C18_Witness ==
    /\ Served("pac") /\ Attached(cur.pre, PacID(cur.args))
    /\ LET k == cur.pre.holders[cur.pre.configs[PacID(cur.args)]].conn IN
       /\ cur.pre.conns[k].peerGone /\ ~cur.pre.conns[k].closed
       /\ conns[k].frames = << >>
       /\ ~conns[k].closed
       /\ Attached(Now, PacID(cur.args))
       /\ holders[configs[PacID(cur.args)]].conn = k
    /\ activeConfigs = 1

\* C19: the delete(id) that follows a disconnect leaves every entry registered
\* under another identifier as it was: still registered, same content, same
\* channel, and that channel neither closed nor written to.
C19_FailureIsolation ==
    Served("delete")
    => \A id \in DOMAIN cur.pre.configs :
           id # cur.args.id
           => /\ Present(Now, id)
              /\ configs[id] = cur.pre.configs[id]
              /\ holders[configs[id]] = cur.pre.holders[configs[id]]
              /\ LET k == holders[configs[id]].conn IN
                 k # Nil => /\ conns[k].closed = cur.pre.conns[k].closed
                            /\ conns[k].frames = cur.pre.conns[k].frames

\* the entry of one producer was deleted while another producer's entry, with
\* its open connection, stayed
C19_Witness ==
    /\ Served("delete")
    /\ Attached(cur.pre, cur.args.id) /\ ~Present(Now, cur.args.id)
    /\ conns[cur.args.cn].closed
    /\ \E id \in DOMAIN configs :
           /\ id # cur.args.id
           /\ Attached(Now, id)
           /\ ~conns[holders[configs[id]].conn].closed
           /\ ~conns[holders[configs[id]].conn].peerGone

\* C20: every connection wsHandler upgraded has been closed by the server once
\* the handler invocation that upgraded it has returned (the handler of a
\* connection keeps it in its local conn until it returns).
C20_NoConnectionLeak ==
    \A k \in 1..Len(conns) :
        (\A p \in Procs : loc[p].cn # k) => conns[k].closed

====
